---- MODULE Spec2Model ----
(***************************************************************************)
(* Model of main.py: a FastAPI application keeping a list of cities in a   *)
(* SQLite store (tables cities / default_cities) and refreshing their      *)
(* temperatures on demand from a weather API, at most once per 15 minutes  *)
(* and city.                                                               *)
(*                                                                         *)
(* Every handler is a coroutine on one event loop: a handler runs          *)
(* atomically between two awaits.  Only update_weather awaits (the gather  *)
(* of its fetches), so it is two steps, and requests may run in between.   *)
(* Times are minutes.  A nullable column or an optional value is <<>>      *)
(* when it is NULL / None and <<v>> when it holds v.                       *)
(***************************************************************************)
EXTENDS Integers, Sequences, FiniteSets, TLC

\* ---------------------------------------------------------------- bounds
MaxTime == 16          \* the clock is observed up to this minute
MaxSeed == 2           \* data rows of cities.csv
MaxId == 2             \* largest primary key the store hands out
MaxRefresh == 2        \* update_weather requests suspended at the same time
MaxShown == 4          \* rows of the city table when the page is rendered

\* ------------------------------------------------------ program constants
StaleMinutes == 15     \* timedelta(minutes=15)
FetchMinutes == 1      \* timeout=10 (seconds) of a fetch, rounded up to minutes
SeeOther == 303        \* RedirectResponse(status_code=303)
ServerError == 500     \* an exception that leaves a handler

None == <<>>
Some(v) == <<v>>

\* ----------------------------------------------------------- input sets
\* Instants at which the clock is read: 0, 1, 16, ... so that two reads can
\* be 0, 1, 15 or 16 minutes apart.
Instants == {t \in 0..MaxTime : t % (StaleMinutes + 1) \in {0, 1}}

\* Temperatures the weather API reports (0 is a temperature, not "no data").
Temps == {0, 20}

\* A row of cities.csv.  The latitude and longitude columns are text:
\* <<n>> is text that float() parses to n, <<>> text that float() rejects.
CsvRows ==
  { [city |-> "Tokyo", latitude |-> Some(35), longitude |-> Some(139)],
    [city |-> "Oslo",  latitude |-> Some(59), longitude |-> Some(10)],
    [city |-> "Oslo",  latitude |-> None,     longitude |-> Some(10)] }

SeqsUpTo(S, n) == UNION {[1..k -> S] : k \in 0..n}

\* cities.csv: absent, or present with up to MaxSeed data rows.
CsvFiles ==
  {[exists |-> FALSE, rows |-> <<>>]}
    \cup {[exists |-> TRUE, rows |-> r] : r \in SeqsUpTo(CsvRows, MaxSeed)}

\* The forms a user submits to /cities/add.
AddForms ==
  { [name |-> "Tokyo", lat |-> 1, lon |-> 2],
    [name |-> "Oslo",  lat |-> 59, lon |-> 10] }

\* What one GET to the weather API ends in.
Responses ==
  {[raised |-> TRUE, status |-> 0, body |-> None]}                \* timeout, network error
    \cup {[raised |-> FALSE, status |-> 500, body |-> Some(20)]}  \* non-200 status
    \cup {[raised |-> FALSE, status |-> 200, body |-> None]}      \* malformed body
    \cup {[raised |-> FALSE, status |-> 200, body |-> Some(t)] : t \in Temps}

VARIABLES
  City,         \* table cities: a set of rows
  DefaultCity,  \* table default_cities: its rows in id order
  now,          \* datetime.utcnow(), in minutes
  phase,        \* "boot" before lifespan has run, "serving" after
  requests,     \* the update_weather requests suspended in asyncio.gather
  last,         \* the handler step that ran last, with its outcome
  fetched_at    \* history: id -> the latest now of a refresh that stored a
                \* temperature in the row that has this id

vars == <<City, DefaultCity, now, phase, requests, last, fetched_at>>

\* ------------------------------------------------------------ the store
NewCity(id, name, latitude, longitude) ==
  [id |-> id, name |-> name, latitude |-> latitude, longitude |-> longitude,
   temperature |-> None, updated_at |-> None]

Ids(rows) == {c.id : c \in rows}

Restrict(f, S) == [x \in S |-> f[x]]

SetMax(S) == CHOOSE m \in S : \A x \in S : x <= m

\* INTEGER PRIMARY KEY without AUTOINCREMENT: one more than the largest id.
NextId(rows) == IF rows = {} THEN 1 ELSE SetMax(Ids(rows)) + 1

\* The rows inserted from the default table into an emptied cities table.
Mirror(defaults) ==
  {NewCity(i, defaults[i].name, defaults[i].latitude, defaults[i].longitude) :
     i \in 1..Len(defaults)}

\* Mutant: the name column of cities without its unique constraint.
UniqueNames_off(defaults) == TRUE

\* unique=True on cities.name: the commit of the mirrored rows fails when two
\* default rows share a name.
UniqueNames(defaults) ==
  \A i, j \in 1..Len(defaults) : defaults[i].name = defaults[j].name => i = j

\* ---------------------------------------------------------------- startup
Parses(text) == text # None
Float(text) == text[1]

CsvParses(csv) ==
  \A k \in 1..Len(csv.rows) :
    Parses(csv.rows[k].latitude) /\ Parses(csv.rows[k].longitude)

CsvDefaults(csv) ==
  [k \in 1..Len(csv.rows) |->
     [name |-> csv.rows[k].city,
      latitude |-> Float(csv.rows[k].latitude),
      longitude |-> Float(csv.rows[k].longitude)]]

\* lifespan: the two deletes and the default rows are committed together, and
\* only when the file exists and every row parses; otherwise the session is
\* closed with the deletes uncommitted and the store is as it was.
lifespan(csv) ==
  /\ phase = "boot"
  /\ IF csv.exists /\ CsvParses(csv)
       THEN /\ DefaultCity' = CsvDefaults(csv)
            /\ City' = IF UniqueNames(CsvDefaults(csv))
                         THEN Mirror(CsvDefaults(csv))
                         ELSE {}
            /\ fetched_at' = <<>>
       ELSE UNCHANGED <<City, DefaultCity, fetched_at>>
  /\ phase' = "serving"
  /\ last' = [op |-> "lifespan", csv |-> csv]
  /\ UNCHANGED <<now, requests>>

\* The process is stopped and started again: the store file stays, the
\* suspended requests are gone.
Restart ==
  /\ phase = "serving"
  /\ phase' = "boot"
  /\ requests' = <<>>
  /\ last' = [op |-> "restart"]
  /\ UNCHANGED <<City, DefaultCity, now, fetched_at>>

\* Time passes.  A fetch ends within its timeout, so no request is still
\* suspended more than FetchMinutes after it read the clock.
Tick ==
  /\ \E t \in Instants :
       /\ t > now
       /\ \A i \in 1..Len(requests) : t - requests[i].now <= FetchMinutes
       /\ now' = t
  /\ UNCHANGED <<City, DefaultCity, phase, requests, last, fetched_at>>

Init ==
  /\ City = {}
  /\ DefaultCity = <<>>
  /\ now = 0
  /\ phase = "boot"
  /\ requests = <<>>
  /\ last = [op |-> "init"]
  /\ fetched_at = <<>>

\* ------------------------------------------------------- Weather Fetcher
\* fetch_weather: the temperature of a 200 response with a parseable body,
\* None for everything else; no exception leaves it.
fetch_weather(city_id, response) ==
  IF ~response.raised /\ response.status = 200 /\ response.body # None
    THEN <<city_id, response.body>>
    ELSE <<city_id, None>>

\* ---------------------------------------------------- Refresh Orchestrator
\* Mutant: the filter without its "not c.updated_at" disjunct.
Stale_fetched_only(c, t) ==
  c.updated_at # None /\ t - c.updated_at[1] > StaleMinutes

\* Mutant: the filter with >= in place of >.
Stale_at_boundary(c, t) ==
  \/ c.updated_at = None
  \/ t - c.updated_at[1] >= StaleMinutes

\* The filter of line 116: never fetched, or fetched more than 15 minutes ago.
Stale(c, t) ==
  \/ c.updated_at = None
  \/ t - c.updated_at[1] > StaleMinutes

\* Mutant: the selection leaves out the cities a suspended refresh is fetching.
ToUpdate_exclusive(rows, t) ==
  {c \in rows :
     /\ Stale(c, t)
     /\ \A i \in 1..Len(requests) : c.id \notin {k.id : k \in requests[i].to_update}}

ToUpdate(rows, t) == {c \in rows : Stale(c, t)}

\* The (id, latitude, longitude) each fetch task is created with.
Tasks(rows) ==
  {[id |-> c.id, latitude |-> c.latitude, longitude |-> c.longitude] : c \in rows}

\* Mutant: the update stamps the row with nothing but the temperature.
apply_weather_unstamped(rows, city_id, temp, ts) ==
  {IF c.id = city_id THEN [c EXCEPT !.temperature = Some(temp)] ELSE c : c \in rows}

\* db.query(City).filter(City.id == city_id).update({...})
apply_weather(rows, city_id, temp, ts) ==
  {IF c.id = city_id
     THEN [c EXCEPT !.temperature = Some(temp), !.updated_at = Some(ts)]
     ELSE c : c \in rows}

\* The loop of lines 122-124 over the gathered results: a result with a
\* temperature is applied, a result of None is skipped.
RECURSIVE WriteBackLoop(_, _, _, _)
WriteBackLoop(rows, results, ids, ts) ==
  IF ids = {}
    THEN rows
    ELSE LET city_id == CHOOSE x \in ids : TRUE
             temp == results[city_id]
         IN WriteBackLoop(IF temp # None
                            THEN apply_weather(rows, city_id, temp[1], ts)
                            ELSE rows,
                          results, ids \ {city_id}, ts)

\* Mutant: the loop without its "if temp is not None".
WriteBack_unguarded(rows, results, ts) ==
  {IF c.id \in DOMAIN results
     THEN [c EXCEPT !.temperature = results[c.id], !.updated_at = Some(ts)]
     ELSE c : c \in rows}

WriteBack(rows, results, ts) == WriteBackLoop(rows, results, DOMAIN results, ts)

\* The history of the write-back: the rows it stored a temperature in.
Stored(fetched, rows, results, ts) ==
  LET hit == {id \in Ids(rows) \cap DOMAIN results : results[id] # None} IN
    [id \in DOMAIN fetched \cup hit |->
       IF id \in hit /\ (id \notin DOMAIN fetched \/ fetched[id] < ts)
         THEN ts ELSE fetched[id]]

RemoveAt(s, i) == [k \in 1..(Len(s) - 1) |-> IF k < i THEN s[k] ELSE s[k + 1]]

\* update_weather up to its await: read the table, read the clock, select.
\* With nothing selected it returns at once; otherwise it suspends in gather.
update_weather ==
  /\ phase = "serving"
  /\ LET to_update == ToUpdate(City, now) IN
       IF to_update = {}
         THEN /\ last' = [op |-> "update_weather", now |-> now,
                          to_update |-> {}, results |-> <<>>, status |-> SeeOther]
              /\ UNCHANGED requests
         ELSE /\ Len(requests) < MaxRefresh
              /\ requests' = Append(requests,
                   [now |-> now, to_update |-> Tasks(to_update)])
              /\ last' = [op |-> "update_weather_await", now |-> now,
                          to_update |-> Tasks(to_update)]
  /\ UNCHANGED <<City, DefaultCity, now, phase, fetched_at>>

\* update_weather from the return of gather: every fetch has ended, the
\* results with a temperature are written with the request's own now.
update_weather_gathered(i) ==
  /\ phase = "serving"
  /\ i \in 1..Len(requests)
  /\ LET r == requests[i] IN
       \E response \in [{t.id : t \in r.to_update} -> Responses] :
         LET results == [id \in DOMAIN response |-> fetch_weather(id, response[id])[2]] IN
           /\ City' = WriteBack(City, results, r.now)
           /\ fetched_at' = Stored(fetched_at, City, results, r.now)
           /\ last' = [op |-> "update_weather", now |-> r.now,
                       to_update |-> r.to_update, results |-> results,
                       status |-> SeeOther]
  /\ requests' = RemoveAt(requests, i)
  /\ UNCHANGED <<DefaultCity, now, phase>>

\* ------------------------------------------------------------- City Store
\* Mutant: the reset clears the default table with the city table.
reset_cities_both ==
  /\ phase = "serving"
  /\ City' = {}
  /\ DefaultCity' = <<>>
  /\ fetched_at' = <<>>
  /\ last' = [op |-> "reset_cities", status |-> SeeOther]
  /\ UNCHANGED <<now, phase, requests>>

\* reset_cities: delete, reinsert and commit in one transaction; a duplicate
\* name among the defaults fails the commit and the delete is rolled back.
reset_cities ==
  /\ phase = "serving"
  /\ IF UniqueNames(DefaultCity)
       THEN /\ City' = Mirror(DefaultCity)
            /\ fetched_at' = <<>>
            /\ last' = [op |-> "reset_cities", status |-> SeeOther]
       ELSE /\ UNCHANGED <<City, fetched_at>>
            /\ last' = [op |-> "reset_cities", status |-> ServerError]
  /\ UNCHANGED <<DefaultCity, now, phase, requests>>

\* Mutant: the delete filters on id >= city_id.
remove_city_from(city_id) ==
  /\ phase = "serving"
  /\ City' = {c \in City : c.id < city_id}
  /\ fetched_at' = Restrict(fetched_at, {id \in DOMAIN fetched_at : id < city_id})
  /\ last' = [op |-> "remove_city", city_id |-> city_id,
              found |-> city_id \in Ids(City), status |-> SeeOther]
  /\ UNCHANGED <<DefaultCity, now, phase, requests>>

remove_city(city_id) ==
  /\ phase = "serving"
  /\ City' = {c \in City : c.id # city_id}
  /\ fetched_at' = Restrict(fetched_at, DOMAIN fetched_at \ {city_id})
  /\ last' = [op |-> "remove_city", city_id |-> city_id,
              found |-> city_id \in Ids(City), status |-> SeeOther]
  /\ UNCHANGED <<DefaultCity, now, phase, requests>>

\* Mutant: the insert without the lookup of the name.
add_city_unchecked(name, lat, lon) ==
  /\ phase = "serving"
  /\ NextId(City) <= MaxId
  /\ City' = City \cup {NewCity(NextId(City), name, lat, lon)}
  /\ last' = [op |-> "add_city", name |-> name, lat |-> lat, lon |-> lon,
              status |-> SeeOther]
  /\ UNCHANGED <<DefaultCity, now, phase, requests, fetched_at>>

add_city(name, lat, lon) ==
  /\ phase = "serving"
  /\ IF \E c \in City : c.name = name
       THEN City' = City
       ELSE /\ NextId(City) <= MaxId
            /\ City' = City \cup {NewCity(NextId(City), name, lat, lon)}
  /\ last' = [op |-> "add_city", name |-> name, lat |-> lat, lon |-> lon,
              status |-> SeeOther]
  /\ UNCHANGED <<DefaultCity, now, phase, requests, fetched_at>>

Next ==
  \/ \E csv \in CsvFiles : lifespan(csv)
  \/ Restart
  \/ Tick
  \/ update_weather
  \/ \E i \in 1..MaxRefresh : update_weather_gathered(i)
  \/ reset_cities
  \/ \E city_id \in 1..MaxId : remove_city(city_id)
  \/ \E f \in AddForms : add_city(f.name, f.lat, f.lon)

Spec == Init /\ [][Next]_vars

\* Mutant: a fetch without the timeout of line 94 need not ever end.
FetchesEnd_no_timeout == TRUE

\* Every fetch ends, with a response, an error or its timeout, and the event
\* loop then resumes the refresh that awaits it in gather.
FetchesEnd == \A i \in 1..MaxRefresh : WF_vars(update_weather_gathered(i))

\* The process up and serving, seeded by lifespan from a cities.csv whose
\* rows parse and name each city once.
LiveInit ==
  \E csv \in CsvFiles :
    /\ csv.exists /\ CsvParses(csv) /\ UniqueNames(CsvDefaults(csv))
    /\ City = Mirror(CsvDefaults(csv))
    /\ DefaultCity = CsvDefaults(csv)
    /\ now = 0
    /\ phase = "serving"
    /\ requests = <<>>
    /\ last = [op |-> "lifespan", csv |-> csv]
    /\ fetched_at = <<>>

\* The request handlers and the clock, while the process stays up; the add
\* form is the one whose coordinates no seeded city has.
LiveNext ==
  \/ Tick
  \/ update_weather
  \/ \E i \in 1..MaxRefresh : update_weather_gathered(i)
  \/ reset_cities
  \/ \E city_id \in 1..MaxId : remove_city(city_id)
  \/ \E f \in {g \in AddForms : g.name = "Tokyo"} : add_city(f.name, f.lat, f.lon)

\* The serving application with its fetches ending.
LiveSpec == LiveInit /\ [][LiveNext]_vars /\ FetchesEnd

\* ----------------------------------------------------- Presentation Layer
\* Temperatures a row can hold when the page is rendered: above, at and below
\* zero.
Readings == {-5, 0, 20}

\* Names for the rows of a rendered table (the column is unique).
ShownNames == <<"Tokyo", "Oslo", "Lima", "Cairo", "Perth">>

\* A row as a write-back leaves it (temperature and updated_at set together)
\* or as its insert left it.
ShownCity(id, temperature) ==
  [NewCity(id, ShownNames[id], id, id) EXCEPT
     !.temperature = temperature,
     !.updated_at = IF temperature = None THEN None ELSE Some(0)]

\* The city tables the page is rendered from: each id absent, unfetched or
\* holding one of the readings.
ShownTables ==
  LET Cell == {None} \cup {Some(t) : t \in Readings} IN
    UNION {{{ShownCity(id, f[id]) : id \in S} : f \in [S -> Cell]} :
             S \in SUBSET (1..MaxShown)}

\* db.query(City).all() has no ORDER BY: the rows in any order.
QueryAll(rows) ==
  {q \in [1..Cardinality(rows) -> rows] :
     \A i, j \in 1..Cardinality(rows) : q[i] = q[j] => i = j}

\* Mutant: the key without the minus sign.
SortKey_ascending(x) ==
  <<x.temperature = None, IF x.temperature = None THEN 0 ELSE x.temperature[1]>>

\* key=lambda x: (x.temperature is None, -(x.temperature or 0))
SortKey(x) ==
  <<x.temperature = None, -(IF x.temperature = None THEN 0 ELSE x.temperature[1])>>

\* Python's order on the key tuples: False before True, then the numbers.
KeyLess(a, b) ==
  \/ a[1] = FALSE /\ b[1] = TRUE
  \/ a[1] = b[1] /\ a[2] < b[2]

\* sorted(): a stable sort, each element placed behind the elements already
\* placed whose key is not greater than its own.
RECURSIVE sorted(_)
sorted(cities) ==
  IF cities = <<>>
    THEN <<>>
    ELSE LET n == Len(cities)
             x == cities[n]
             head == sorted(SubSeq(cities, 1, n - 1))
             before == {i \in 1..(n - 1) : ~KeyLess(SortKey(x), SortKey(head[i]))}
             k == Cardinality(before)
         IN SubSeq(head, 1, k) \o <<x>> \o SubSeq(head, k + 1, n - 1)

\* read_root: query the rows, sort them, hand them to the template.
read_root ==
  /\ phase = "serving"
  /\ \E cities \in QueryAll(City) :
       last' = [op |-> "read_root", cities |-> cities,
                sorted_cities |-> sorted(cities)]
  /\ UNCHANGED <<City, DefaultCity, now, phase, requests, fetched_at>>

\* The page rendered over every table of ShownTables.
SortInit ==
  /\ City \in ShownTables
  /\ DefaultCity = <<>>
  /\ now = 0
  /\ phase = "serving"
  /\ requests = <<>>
  /\ last = [op |-> "init"]
  /\ fetched_at = <<>>

SortNext == read_root

SortSpec == SortInit /\ [][SortNext]_vars

\* ------------------------------------------------------------------ claims
Unset(c) == c.temperature = None /\ c.updated_at = None

\* Fetched at most 15 minutes before t (exactly 15 minutes counts).
Fresh(c, t) == c.updated_at # None /\ t - c.updated_at[1] <= StaleMinutes

TaskIds(tasks) == {t.id : t \in tasks}

\* The last step was update_weather suspending on the fetches it issued.
Suspended == last.op = "update_weather_await"

\* The last step was update_weather returning without any fetch.
ReturnedAtOnce == last.op = "update_weather" /\ last.to_update = {}

\* The last step was update_weather writing back the results of its fetches.
WroteBack == last.op = "update_weather" /\ last.to_update # {}

\* A step of update_weather up to its await (Began) and from the return of
\* gather (Gathered), of add_city and of remove_city, told by what the step
\* records in last.
Began ==
  \/ last'.op = "update_weather_await" /\ Len(requests') = Len(requests) + 1
  \/ last'.op = "update_weather" /\ last'.to_update = {} /\ now' = now

Gathered ==
  /\ last'.op = "update_weather"
  /\ last'.to_update # {}
  /\ Len(requests') = Len(requests) - 1

Added == last'.op = "add_city" /\ now' = now

Removed == last'.op = "remove_city" /\ now' = now

\* C1: a refresh issues a fetch, with the row's own id and coordinates, for
\* every City whose updated_at is unset; it returns without fetching only
\* when no City is unset.
C1_UnsetIsFetched ==
  /\ Suspended =>
       /\ requests # <<>>
       /\ requests[Len(requests)].to_update = last.to_update
       /\ \A c \in City : c.updated_at = None =>
            [id |-> c.id, latitude |-> c.latitude, longitude |-> c.longitude]
              \in last.to_update
  /\ ReturnedAtOnce => \A c \in City : c.updated_at # None

\* A refresh has fetched a never-fetched City and skipped a fetched one.
C1_Witness ==
  /\ Suspended
  /\ \E c \in City : c.updated_at = None /\ c.id \in TaskIds(last.to_update)
  /\ \E c \in City : c.updated_at # None /\ c.id \notin TaskIds(last.to_update)

\* C2: a refresh at time now selects no City that is fresh at now (updated at
\* most 15 minutes before) and changes no row on suspending; its write-back
\* changes no row it did not select; and a refresh that finds every City
\* fresh issues no fetch and leaves the store as it is.
C2_FreshUntouched ==
  [][/\ Began =>
          /\ City' = City /\ DefaultCity' = DefaultCity
          /\ \A c \in City : Fresh(c, now) => c.id \notin TaskIds(last'.to_update)
          /\ (\A c \in City : Fresh(c, now)) =>
               (requests' = requests /\ last'.to_update = {})
     /\ Gathered =>
          /\ DefaultCity' = DefaultCity
          /\ \A c \in City : c.id \notin TaskIds(last'.to_update) => c \in City'
    ]_vars

\* A refresh exactly 15 minutes after a successful one has returned at once.
C2_Witness ==
  /\ ReturnedAtOnce
  /\ requests = <<>>
  /\ City # {}
  /\ \E c \in City : now - c.updated_at[1] = StaleMinutes

\* C3: after the write-back of a refresh, every row whose fetch returned a
\* temperature holds that temperature and the now the refresh read at its
\* start, whatever the other fetches of the refresh returned.
C3_SuccessStored ==
  WroteBack =>
    \A id \in DOMAIN last.results :
      last.results[id] # None =>
        \A c \in City : c.id = id =>
          c.temperature = last.results[id] /\ c.updated_at = Some(last.now)

\* A refresh with one failed and one successful fetch has written back.
C3_Witness ==
  /\ WroteBack
  /\ \E id \in DOMAIN last.results : last.results[id] = None
  /\ \E c \in City :
       /\ c.id \in DOMAIN last.results
       /\ last.results[c.id] # None
       /\ c.temperature = last.results[c.id]
       /\ c.updated_at = Some(last.now)

\* C4: the write-back of a refresh leaves every row whose fetch failed as it
\* was, turns no set temperature into unset, and the refresh answers with
\* its redirect; the suspending step changes no row either.
C4_FailureKeepsRow ==
  [][/\ Gathered =>
          /\ last'.status = SeeOther
          /\ \A c \in City :
               /\ (c.id \in DOMAIN last'.results /\ last'.results[c.id] = None)
                    => c \in City'
               /\ c.temperature # None
                    => \E d \in City' : d.id = c.id /\ d.temperature # None
     /\ Began => City' = City
    ]_vars

\* A fetch for a City that had a temperature has failed, and it is kept.
C4_Witness ==
  /\ WroteBack
  /\ \E c \in City :
       /\ c.id \in DOMAIN last.results
       /\ last.results[c.id] = None
       /\ c.temperature # None

\* City holds exactly one row per DefaultCity row, with its name and
\* coordinates, and temperature and updated_at unset.
MirrorsDefaults ==
  /\ Cardinality(City) = Len(DefaultCity)
  /\ \E f \in [1..Len(DefaultCity) -> City] :
       /\ \A i, j \in 1..Len(DefaultCity) : f[i] = f[j] => i = j
       /\ \A i \in 1..Len(DefaultCity) :
            /\ f[i].name = DefaultCity[i].name
            /\ f[i].latitude = DefaultCity[i].latitude
            /\ f[i].longitude = DefaultCity[i].longitude
            /\ Unset(f[i])

\* C5: after reset_cities, whatever the seed list held, City mirrors
\* DefaultCity.  (Fails: two default rows with one name fail the commit.)
C5_ResetMirrorsDefaults ==
  last.op = "reset_cities" => MirrorsDefaults

\* C6: add_city with a name that some City already has leaves the store as
\* it is (the row keeps its id, coordinates, temperature and updated_at), so
\* after any add_city exactly one City has the submitted name.
C6_AddIdempotent ==
  [][Added =>
       /\ (\E c \in City : c.name = last'.name) =>
             (City' = City /\ DefaultCity' = DefaultCity)
       /\ Cardinality({c \in City' : c.name = last'.name}) = 1]_vars

\* An add_city of a name that was there with other coordinates has run.
C6_Witness ==
  /\ last.op = "add_city"
  /\ \E c \in City : c.name = last.name /\ c.latitude # last.lat

\* C7: no two City rows have the same name (nor the same id).
C7_UniqueNames ==
  \A c, d \in City : (c.name = d.name \/ c.id = d.id) => c = d

\* Two cities are listed after an add_city.
C7_Witness ==
  /\ last.op = "add_city"
  /\ Cardinality(City) = 2

\* C8: remove_city with an id no row has leaves both tables as they are; with
\* an id a row has it deletes that row and no other.
C8_RemoveFrame ==
  [][Removed =>
       /\ DefaultCity' = DefaultCity
       /\ last'.city_id \notin Ids(City) => City' = City
       /\ City' \subseteq City
       /\ \A c \in City : c \in City' <=> c.id # last'.city_id]_vars

\* A remove_city of an id that no row had has run on a non-empty table.
C8_Witness ==
  /\ last.op = "remove_city"
  /\ ~last.found
  /\ City # {}

\* C9: after lifespan, whatever the store held and whatever the seed file,
\* DefaultCity holds the rows of the file and nothing else, and City mirrors
\* DefaultCity.  (Fails: without a readable file nothing is committed.)
C9_StartupMirrorsFile ==
  last.op = "lifespan" =>
    /\ MirrorsDefaults
    /\ Len(DefaultCity) <= Len(last.csv.rows)
    /\ \A i \in 1..Len(DefaultCity) :
         /\ DefaultCity[i].name = last.csv.rows[i].city
         /\ Some(DefaultCity[i].latitude) = last.csv.rows[i].latitude
         /\ Some(DefaultCity[i].longitude) = last.csv.rows[i].longitude

\* C10: a City whose fetch succeeded in a refresh is not fetched again by a
\* refresh that reads the clock at most 15 minutes after that refresh did.
\* (Fails: an overlapping older refresh writes its older now over it.)
C10_NoRefetchInWindow ==
  Suspended =>
    \A c \in City :
      (c.id \in DOMAIN fetched_at /\ last.now - fetched_at[c.id] <= StaleMinutes)
        => c.id \notin TaskIds(last.to_update)

\* C11: every mutation endpoint (add, remove, reset, refresh) answers with
\* the 303 redirect, whatever the state and the outcome.  (Fails: a reset
\* over default rows that share a name ends in an error response.)
C11_AlwaysRedirects ==
  last.op \in {"add_city", "remove_city", "reset_cities", "update_weather"}
    => last.status = SeeOther

\* C12: once startup seeding is over, no add, remove, reset or refresh step
\* (nor the passing of time) changes the DefaultCity table.
C12_DefaultsImmutable ==
  [][(phase = "serving" /\ phase' = "serving") => DefaultCity' = DefaultCity]_vars

\* A reset has refilled the city table from a non-empty default table that
\* outlived a refresh.
C12_Witness ==
  /\ last.op = "reset_cities"
  /\ last.status = SeeOther
  /\ DefaultCity # <<>>
  /\ City # {}
  /\ requests # <<>>

\* C13: nothing excludes a second staleness check while a refresh is
\* suspended: a refresh that starts then selects every City that is unset or
\* stale at its now, the ones an earlier, still suspended refresh is fetching
\* included, so two fetches for one City are in flight together.
C13_NoExclusion ==
  Suspended =>
    \A i \in 1..(Len(requests) - 1) :
      \A t \in requests[i].to_update :
        \A c \in City :
          (/\ c.id = t.id
           /\ (c.updated_at = None \/ last.now - c.updated_at[1] > StaleMinutes))
            => [id |-> c.id, latitude |-> c.latitude, longitude |-> c.longitude]
                 \in last.to_update

\* Two suspended refreshes each hold a fetch for the same City.
C13_Witness ==
  /\ Suspended
  /\ Len(requests) = 2
  /\ \E c \in City :
       LET t == [id |-> c.id, latitude |-> c.latitude, longitude |-> c.longitude] IN
         t \in requests[1].to_update /\ t \in requests[2].to_update

\* C16: in every reachable state every City has its temperature set exactly
\* when its updated_at is set.
C16_SetTogether ==
  \A c \in City : (c.temperature = None) <=> (c.updated_at = None)

\* Of two Cities selected by one refresh, the write-back has set both fields
\* of the one whose fetch succeeded and neither of the one whose fetch failed.
C16_Witness ==
  /\ WroteBack
  /\ \E c, d \in City :
       /\ c.id \in DOMAIN last.results /\ d.id \in DOMAIN last.results
       /\ c.temperature # None /\ c.updated_at # None
       /\ d.temperature = None /\ d.updated_at = None

\* C17: a temperature the write-back of a refresh stores on a City was
\* fetched for that City's own latitude and longitude, whatever remove, add
\* and reset did while the refresh was suspended.  (Fails: the write-back
\* finds the row by id alone, and the store hands the id of a removed City
\* to the next City added.)
C17_OwnCoordinates ==
  WroteBack =>
    \A t \in last.to_update :
      last.results[t.id] # None =>
        \A c \in City :
          c.id = t.id => (c.latitude = t.latitude /\ c.longitude = t.longitude)

\* C18: the write-back of a refresh never moves the updated_at of a City that
\* stays in the store backwards, also when refreshes overlap.  (Fails: a
\* refresh that started earlier and finishes later writes its older now.)
C18_UpdatedAtMonotone ==
  [][Gathered =>
       \A c \in City : \A d \in City' :
         (d.id = c.id /\ c.updated_at # None) =>
           (d.updated_at # None /\ d.updated_at[1] >= c.updated_at[1])]_vars

\* C15: the list GET / renders is a permutation of the City rows; every City
\* with a set temperature comes before every City without one; and the set
\* temperatures never increase along the list, zero and negative ones
\* included.
C15_SortedList ==
  last.op = "read_root" =>
    LET s == last.sorted_cities IN
      /\ Len(s) = Cardinality(City)
      /\ {s[i] : i \in 1..Len(s)} = City
      /\ \A i, j \in 1..Len(s) :
           i < j =>
             /\ s[i].temperature = None => s[j].temperature = None
             /\ (s[i].temperature # None /\ s[j].temperature # None)
                  => s[i].temperature[1] >= s[j].temperature[1]

\* A page with a positive, a zero, a negative and an unset temperature has
\* been rendered from a query that returned them in another order.
C15_Witness ==
  /\ last.op = "read_root"
  /\ last.cities # last.sorted_cities
  /\ \A v \in {None} \cup {Some(t) : t \in Readings} :
       \E c \in City : c.temperature = v

\* The oldest suspended refresh returns: it leaves the suspended requests,
\* the rows hold what the write-back of its results with its own now makes of
\* them, and it answers with the redirect.
Returned ==
  /\ requests # <<>>
  /\ requests' = Tail(requests)
  /\ last'.op = "update_weather"
  /\ last'.now = requests[1].now
  /\ last'.to_update = requests[1].to_update
  /\ last'.status = SeeOther
  /\ City' = WriteBack(City, last'.results, requests[1].now)

\* C14: with every fetch returning or timing out, no refresh waits forever:
\* again and again either no refresh is suspended or the oldest suspended one
\* writes its successful results and returns its redirect, so each refresh
\* in its turn completes (or is ended by the process stopping).
C14_RefreshCompletes ==
  []<>(requests = <<>>) \/ []<><<Returned>>_vars

\* A refresh whose every fetch failed or timed out has returned its redirect
\* a minute after it started, with nothing left suspended.
C14_Witness ==
  /\ WroteBack
  /\ last.status = SeeOther
  /\ \A id \in DOMAIN last.results : last.results[id] = None
  /\ now - last.now = FetchMinutes
  /\ requests = <<>>
====
